---- MODULE Spec2Model ----
(***************************************************************************)
(* Model of the bf compiler/executor of src/src/main.rs: lex, parse,       *)
(* raise_abstraction, compile (closure chain), run (direct interpreter)    *)
(* and main.                                                               *)
(*                                                                         *)
(* Representation.  A source text is a sequence of one-character strings.  *)
(* An OpCode is the string of its variant name.  An Instruction is a       *)
(* record [op, body]; a BigInsn is a record [op, n, body].  A boxed        *)
(* closure returned by compile is the sequence of the nodes of its chain:  *)
(* node k holds the captured delta_p, the captured inner chain of a loop,  *)
(* and its captured `rest` is the remainder of the sequence.               *)
(***************************************************************************)
EXTENDS Integers, Sequences, FiniteSets, TLC

\* ------------------------------------------------------------------ bounds
MaxLen == 4        \* longest source text of the exhaustive front-end runs
MaxPairLen == 3    \* longest source text of the two-text runs
MaxProg == 3       \* longest source text of the exhaustive execution runs
MaxSteps == 30     \* step budget of one machine in the exhaustive runs
MaxLongSteps == 800  \* step budget of one machine in the long runs

\* ------------------------------------------------------- program constants
TapeLen == 1024
StartPointer == 512

Symbols == {">", "<", "+", "-", ".", ",", "[", "]"}
Comments == {"#"}

Texts(alphabet, n) == UNION {[1..k -> alphabet] : k \in 0..n}

\* --------------------------------------------------------------------- lex
\* The match of lex: Some(op) is <<op>>, None is <<>>.
LexCharKeepAll(symbol) ==
    CASE symbol = ">" -> <<"IncrementPointer">>
      [] symbol = "<" -> <<"DecrementPointer">>
      [] symbol = "+" -> <<"Increment">>
      [] symbol = "-" -> <<"Decrement">>
      [] symbol = "." -> <<"Write">>
      [] symbol = "," -> <<"Read">>
      [] symbol = "[" -> <<"LoopBegin">>
      [] symbol = "]" -> <<"LoopEnd">>
      [] OTHER -> <<"Write">>

LexChar(symbol) ==
    CASE symbol = ">" -> <<"IncrementPointer">>
      [] symbol = "<" -> <<"DecrementPointer">>
      [] symbol = "+" -> <<"Increment">>
      [] symbol = "-" -> <<"Decrement">>
      [] symbol = "." -> <<"Write">>
      [] symbol = "," -> <<"Read">>
      [] symbol = "[" -> <<"LoopBegin">>
      [] symbol = "]" -> <<"LoopEnd">>
      [] OTHER -> <<>>

RECURSIVE lex(_)
lex(source) ==
    IF source = <<>> THEN <<>>
    ELSE LexChar(Head(source)) \o lex(Tail(source))

\* ------------------------------------------------------------------- parse
Insn(op) == [op |-> op, body |-> <<>>]
Loop(body) == [op |-> "Loop", body |-> body]

\* A parse either returns the program or panics; the panic carries the
\* index printed in its message.  `nested` tells that the panic was raised
\* by a recursive call on a captured loop body.
Parsed(program) ==
    [ok |-> TRUE, program |-> program, err |-> "none", at |-> 0, nested |-> FALSE]
ParsePanic(err, at) ==
    [ok |-> FALSE, program |-> <<>>, err |-> err, at |-> at, nested |-> FALSE]

\* panic!("loop ending at #{} has no beginning", i)
unmatched_end_next(i) == ParsePanic("LoopEnd", i + 1)

unmatched_end(i) == ParsePanic("LoopEnd", i)

\* panic!("loop that starts at #{} has no matching ending!", loop_start)
unmatched_begin(loop_start) == ParsePanic("LoopBegin", loop_start)

\* loop_start after a LoopBegin at index i inside an open loop: unchanged.
nested_begin_restart(loop_start, i) == i

nested_begin(loop_start, i) == loop_start

\* opcodes[loop_start + 1..i].to_vec()
loop_body_with_bracket(opcodes, loop_start, i) == SubSeq(opcodes, loop_start + 1, i)

loop_body(opcodes, loop_start, i) == SubSeq(opcodes, loop_start + 2, i)

RECURSIVE parse(_)
RECURSIVE ParseScan(_, _, _, _, _)

\* The body of the for loop of parse at 0-based index i, and the check after
\* the loop.
ParseScanBody(opcodes, i, program, loop_stack, loop_start) ==
    LET op == opcodes[i + 1] IN
    IF loop_stack = 0 THEN
        CASE op = "LoopBegin" -> ParseScan(opcodes, i + 1, program, loop_stack + 1, i)
          [] op = "LoopEnd" -> unmatched_end(i)
          [] OTHER -> ParseScan(opcodes, i + 1, Append(program, Insn(op)), loop_stack, loop_start)
    ELSE
        CASE op = "LoopBegin" -> ParseScan(opcodes, i + 1, program, loop_stack + 1,
                                             nested_begin(loop_start, i))
          [] op = "LoopEnd" ->
                IF loop_stack - 1 = 0 THEN
                    LET inner == parse(loop_body(opcodes, loop_start, i)) IN
                    IF inner.ok
                    THEN ParseScan(opcodes, i + 1, Append(program, Loop(inner.program)),
                                   loop_stack - 1, loop_start)
                    ELSE [inner EXCEPT !.nested = TRUE]
                ELSE ParseScan(opcodes, i + 1, program, loop_stack - 1, loop_start)
          [] OTHER -> ParseScan(opcodes, i + 1, program, loop_stack, loop_start)

ParseScan(opcodes, i, program, loop_stack, loop_start) ==
    IF i >= Len(opcodes) THEN
        IF loop_stack # 0 THEN unmatched_begin(loop_start)
        ELSE Parsed(program)
    ELSE ParseScanBody(opcodes, i, program, loop_stack, loop_start)

parse(opcodes) == ParseScan(opcodes, 0, <<>>, 0, 0)

\* ------------------------------------------------------- raise_abstraction
Move(n) == [op |-> "Move", n |-> n, body |-> <<>>]
Adj(n) == [op |-> "Adj", n |-> n, body |-> <<>>]
Big(op) == [op |-> op, n |-> 0, body |-> <<>>]
BigLoop(body) == [op |-> "Loop", n |-> 0, body |-> body]

\* The three locals of raise_abstraction that emit and maybe_emit mutate.
emit_unconditional(s) ==
    [s EXCEPT !.bigcode = @ \o <<Move(s.deltap), Adj(s.delta)>>, !.deltap = 0, !.delta = 0]

emit(s) ==
    LET afterMove == IF s.deltap # 0
                     THEN [s EXCEPT !.bigcode = Append(@, Move(s.deltap)), !.deltap = 0]
                     ELSE s
    IN IF afterMove.delta # 0
       THEN [afterMove EXCEPT !.bigcode = Append(@, Adj(afterMove.delta)), !.delta = 0]
       ELSE afterMove

maybe_emit_never(s) == s

maybe_emit(s) == IF s.delta # 0 THEN emit(s) ELSE s

RECURSIVE raise_abstraction(_)
RECURSIVE RaiseScan(_, _, _)

\* One iteration of the for loop of raise_abstraction.
RaiseInsn(insn, s) ==
    CASE insn.op \in {"IncrementPointer", "DecrementPointer"} ->
            LET e == maybe_emit(s) IN
            IF insn.op = "IncrementPointer"
            THEN [e EXCEPT !.deltap = @ + 1]
            ELSE [e EXCEPT !.deltap = @ - 1]
      [] insn.op = "Increment" -> [s EXCEPT !.delta = @ + 1]
      [] insn.op = "Decrement" -> [s EXCEPT !.delta = @ - 1]
      [] insn.op = "Write" -> [emit(s) EXCEPT !.bigcode = Append(@, Big("Write"))]
      [] insn.op = "Read" -> [emit(s) EXCEPT !.bigcode = Append(@, Big("Read"))]
      [] insn.op = "Loop" ->
            \* a failing assert_eq! is written as the node AssertFailed
            LET e == [emit(s) EXCEPT !.bigcode = Append(@, BigLoop(raise_abstraction(insn.body)))]
            IN IF e.deltap = 0 /\ e.delta = 0 THEN e
               ELSE [e EXCEPT !.bigcode = Append(@, Big("AssertFailed"))]

RaiseScan(instructions, i, s) ==
    IF i > Len(instructions) THEN s
    ELSE RaiseScan(instructions, i + 1, RaiseInsn(instructions[i], s))

raise_abstraction(instructions) ==
    emit(RaiseScan(instructions, 1,
                   [bigcode |-> <<>>, deltap |-> 0, delta |-> 0])).bigcode

\* ----------------------------------------------------------------- compile
Node(op, delta_p, inner) == [op |-> op, delta_p |-> delta_p, inner |-> inner]

IsSingleInsnLoop(nested_instructions) == Len(nested_instructions) = 1

IsClearLoop(nested_instructions) ==
    Len(nested_instructions) = 1 /\ nested_instructions[1] = Insn("Decrement")

RECURSIVE compile(_, _)
compile(instructions, delta_p) ==
    IF instructions = <<>> THEN <<Node("Return", delta_p, <<>>)>>
    ELSE LET first == Head(instructions)
             tail == Tail(instructions)
         IN CASE first.op = "IncrementPointer" -> compile(tail, delta_p + 1)
              [] first.op = "DecrementPointer" -> compile(tail, delta_p - 1)
              [] first.op = "Loop" ->
                    IF IsClearLoop(first.body)
                    THEN <<Node("SetZero", delta_p, <<>>)>> \o compile(tail, 0)
                    ELSE <<Node("Loop", delta_p, compile(first.body, 0))>> \o compile(tail, 0)
              [] OTHER -> <<Node(first.op, delta_p, <<>>)>> \o compile(tail, 0)

\* -------------------------------------------------------------- execution
VARIABLES
    pc,            \* position of main: "lex", "parse", "raise", "compile",
                   \* then the name of the running machine, "done" or "panic"
    todo,          \* the executions still to be started after the current one
    checks,        \* TRUE iff the build has overflow checks (debug profile)
    source,        \* the text of the program file
    queue,         \* the texts of the program files of the following runs
    obs,           \* what the previous run of main showed
    opcodes,       \* result of lex
    program,       \* result of parse
    bigcode,       \* result of raise_abstraction
    code,          \* result of compile
    tape,          \* the tape handed to the executions
    data_pointer,  \* the cursor handed to the executions
    stdin,         \* the bytes on standard input
    limit,         \* step budget of one machine
    m,             \* the machine that calls the compiled chain
    r,             \* the machine of run
    b              \* the machine that executes the BigInsn tree

vars == <<pc, todo, checks, source, queue, obs, opcodes, program, bigcode, code,
          tape, data_pointer, stdin, limit, m, r, b>>

Idle ==
    [status |-> "idle", stack |-> <<>>, tape |-> <<>>, p |-> 0, stdin |-> <<>>,
     out |-> <<>>, steps |-> 0, escaped |-> FALSE]

Frame(c) == [code |-> c, k |-> 1, entered |-> FALSE]

\* A machine about to execute code c on a copy of the tape.
Start(c) ==
    [status |-> "running", stack |-> <<Frame(c)>>, tape |-> tape, p |-> data_pointer,
     stdin |-> stdin, out |-> <<>>, steps |-> 0,
     escaped |-> data_pointer \notin 0..(TapeLen - 1)]

\* tape[p as usize] is in bounds: a negative i32 cast to usize is at least
\* 2^63, and a usize that wrapped below 0 is at least 2^63 as well.
InBounds(t, p) == p >= 0 /\ p < Len(t)

\* Vec<u8> is indexed from 0, a TLA+ sequence from 1.
Cell(t, p) == t[p + 1]
Store(t, p, v) == [t EXCEPT ![p + 1] = v]

\* print!("{}", byte as char): the UTF-8 encoding of the char U+00vv.
Utf8(v) == IF v < 128 THEN <<v>> ELSE <<192 + (v \div 64), 128 + (v % 64)>>

Panic(mach, why) == [mach EXCEPT !.status = why, !.stack = <<>>]
\* The bounds check of an indexing fails: the cursor is given up by the
\* panic and is kept for the record only.
OutOfBoundsIgnored(mach, p) ==
    [mach EXCEPT !.p = p, !.escaped = TRUE,
                 !.stack = <<[Head(@) EXCEPT !.k = @ + 1, !.entered = FALSE]>> \o Tail(@)]

OutOfBounds(mach, p) ==
    [mach EXCEPT !.status = "oob", !.stack = <<>>, !.p = p, !.escaped = TRUE]

SetP(mach, p) ==
    [mach EXCEPT !.p = p, !.escaped = @ \/ p \notin 0..(TapeLen - 1)]

\* Move to the next node or instruction of the frame on top of the stack.
Advance(mach) ==
    [mach EXCEPT !.stack = <<[Head(@) EXCEPT !.k = @ + 1, !.entered = FALSE]>> \o Tail(@)]

Push(mach, c) ==
    [mach EXCEPT !.stack = <<Frame(c), [Head(@) EXCEPT !.entered = TRUE]>> \o Tail(@)]

Pop(mach) ==
    IF Len(mach.stack) = 1 THEN [mach EXCEPT !.stack = <<>>, !.status = "ok"]
    ELSE [mach EXCEPT !.stack = Tail(@)]

\* tape[p] += 1 and tape[p] -= 1 on a u8: panic with overflow checks, wrap
\* without.
AddOne(mach, p) ==
    IF ~InBounds(mach.tape, p) THEN OutOfBounds(mach, p)
    ELSE IF Cell(mach.tape, p) = 255 /\ checks THEN Panic(SetP(mach, p), "overflow")
    ELSE Advance([SetP(mach, p) EXCEPT !.tape = Store(@, p, (Cell(@, p) + 1) % 256)])

SubOne(mach, p) ==
    IF ~InBounds(mach.tape, p) THEN OutOfBounds(mach, p)
    ELSE IF Cell(mach.tape, p) = 0 /\ checks THEN Panic(SetP(mach, p), "overflow")
    ELSE Advance([SetP(mach, p) EXCEPT !.tape = Store(@, p, (Cell(@, p) + 255) % 256)])

WriteCell(mach, p) ==
    IF ~InBounds(mach.tape, p) THEN OutOfBounds(mach, p)
    ELSE Advance([SetP(mach, p) EXCEPT !.out = @ \o Utf8(Cell(mach.tape, p))])

\* read_exact comes first: it panics at end of input before the cursor or
\* the tape is touched, and the byte is consumed before the tape is indexed.
ReadCell(mach, p) ==
    IF mach.stdin = <<>> THEN Panic(mach, "eof")
    ELSE LET got == [mach EXCEPT !.stdin = Tail(@)] IN
         IF ~InBounds(mach.tape, p) THEN OutOfBounds(got, p)
         ELSE Advance([SetP(got, p) EXCEPT !.tape = Store(@, p, Head(mach.stdin))])

ClearCell(mach, p) ==
    IF ~InBounds(mach.tape, p) THEN OutOfBounds(mach, p)
    ELSE Advance([SetP(mach, p) EXCEPT !.tape = Store(@, p, 0)])

\* The test of a while loop: enter body c or go on after the loop.
TestCell(mach, p, c) ==
    IF ~InBounds(mach.tape, p) THEN OutOfBounds(mach, p)
    ELSE IF Cell(mach.tape, p) # 0 THEN Push(SetP(mach, p), c)
    ELSE Advance(SetP(mach, p))

\* p += delta_p, and p + delta_p, the value of the closure of an empty
\* sequence
Undisplaced(p, delta_p) == p

Displaced(p, delta_p) == p + delta_p

\* One call of a closure built by compile: the node on top of the stack.
CallNode(mach) ==
    LET f == Head(mach.stack)
        n == f.code[f.k]
        p == Displaced(mach.p, n.delta_p)
    IN CASE n.op = "Return" -> Pop(SetP(mach, p))
         [] n.op = "Increment" -> AddOne(mach, p)
         [] n.op = "Decrement" -> SubOne(mach, p)
         [] n.op = "Write" -> WriteCell(mach, p)
         [] n.op = "Read" -> ReadCell(mach, p)
         [] n.op = "SetZero" -> ClearCell(mach, p)
         [] n.op = "Loop" -> TestCell(mach, IF f.entered THEN mach.p ELSE p, n.inner)

\* *data_pointer -= 1 on a usize: panic with overflow checks at 0; without,
\* it wraps to 2^64 - 1, which the model writes -1 (2^64 + p for p < 0).
\* The panic is an attempt to leave the tape: escaped records it.
MoveLeft(mach) ==
    IF mach.p = 0 /\ checks THEN Panic([mach EXCEPT !.escaped = TRUE], "overflow")
    ELSE Advance(SetP(mach, mach.p - 1))

\* One instruction of run, or the end of one call of run.
RunInsn(mach) ==
    LET f == Head(mach.stack) IN
    IF f.k > Len(f.code) THEN Pop(mach)
    ELSE LET insn == f.code[f.k] IN
         CASE insn.op = "IncrementPointer" -> Advance(SetP(mach, mach.p + 1))
           [] insn.op = "DecrementPointer" -> MoveLeft(mach)
           [] insn.op = "Increment" -> AddOne(mach, mach.p)
           [] insn.op = "Decrement" -> SubOne(mach, mach.p)
           [] insn.op = "Write" -> WriteCell(mach, mach.p)
           [] insn.op = "Read" -> ReadCell(mach, mach.p)
           [] insn.op = "Loop" -> TestCell(mach, mach.p, insn.body)

\* Adj(n): the cell plus n, modulo 256.
AdjCell(mach, n) ==
    IF ~InBounds(mach.tape, mach.p) THEN OutOfBounds(mach, mach.p)
    ELSE Advance([mach EXCEPT !.tape = Store(@, mach.p, (((Cell(@, mach.p) + n) % 256) + 256) % 256)])

\* One BigInsn, executed as the source language with Move(n) and Adj(n).
BigStep(mach) ==
    LET f == Head(mach.stack) IN
    IF f.k > Len(f.code) THEN Pop(mach)
    ELSE LET insn == f.code[f.k] IN
         CASE insn.op = "Move" -> Advance(SetP(mach, mach.p + insn.n))
           [] insn.op = "Adj" -> AdjCell(mach, insn.n)
           [] insn.op = "Write" -> WriteCell(mach, mach.p)
           [] insn.op = "Read" -> ReadCell(mach, mach.p)
           [] insn.op = "Loop" -> TestCell(mach, mach.p, insn.body)

\* A step within the budget.
Count(mach, next) ==
    IF mach.steps >= limit THEN Panic(mach, "budget")
    ELSE [next EXCEPT !.steps = mach.steps + 1]

Halted(mach) == mach.status # "running"

\* ----------------------------------------------------------------- actions
NoObs == [valid |-> FALSE, source |-> <<>>, opcodes |-> <<>>, program |-> Parsed(<<>>),
          out |-> <<>>, status |-> "idle"]

ZeroTape == [i \in 1..TapeLen |-> 0]

Lex ==
    /\ pc = "lex"
    /\ opcodes' = lex(source)
    /\ pc' = "parse"
    /\ UNCHANGED <<todo, checks, source, queue, obs, program, bigcode, code,
                   tape, data_pointer, stdin, limit, m, r, b>>

Parse ==
    /\ pc = "parse"
    /\ program' = parse(opcodes)
    /\ pc' = IF program'.ok THEN "raise" ELSE "panic"
    /\ UNCHANGED <<todo, checks, source, queue, obs, opcodes, bigcode, code,
                   tape, data_pointer, stdin, limit, m, r, b>>

\* println!("{:?}", raise_abstraction(&program))
Raise ==
    /\ pc = "raise"
    /\ bigcode' = raise_abstraction(program.program)
    /\ pc' = "compile"
    /\ UNCHANGED <<todo, checks, source, queue, obs, opcodes, program, code,
                   tape, data_pointer, stdin, limit, m, r, b>>

\* What follows the executions of todo.
After(t) == IF t = <<>> THEN "done" ELSE Head(t)

\* let code = compile(&program, 0), and the call code(&mut tape, data_pointer)
\* is about to start.
Compile ==
    /\ pc = "compile"
    /\ code' = compile(program.program, 0)
    /\ m' = Start(code')
    /\ pc' = "call"
    /\ UNCHANGED <<todo, checks, source, queue, obs, opcodes, program, bigcode,
                   tape, data_pointer, stdin, limit, r, b>>

\* The machine that starts when pc becomes e.
Begin(e) ==
    /\ r' = IF e = "run" THEN Start(program.program) ELSE r
    /\ b' = IF e = "big" THEN Start(bigcode) ELSE b
    /\ todo' = IF e = "done" THEN todo ELSE Tail(todo)
    /\ pc' = e

Call ==
    /\ pc = "call"
    /\ IF Halted(m)
       THEN m' = m /\ Begin(After(todo))
       ELSE m' = Count(m, CallNode(m)) /\ UNCHANGED <<pc, todo, r, b>>
    /\ UNCHANGED <<checks, source, queue, obs, opcodes, program, bigcode, code,
                   tape, data_pointer, stdin, limit>>

Run ==
    /\ pc = "run"
    /\ IF Halted(r)
       THEN Begin(After(todo))
       ELSE r' = Count(r, RunInsn(r)) /\ UNCHANGED <<pc, todo, b>>
    /\ UNCHANGED <<checks, source, queue, obs, opcodes, program, bigcode, code,
                   tape, data_pointer, stdin, limit, m>>

ExecBig ==
    /\ pc = "big"
    /\ IF Halted(b)
       THEN pc' = After(todo) /\ UNCHANGED <<todo, b>>
       ELSE b' = Count(b, BigStep(b)) /\ UNCHANGED <<pc, todo>>
    /\ UNCHANGED <<checks, source, queue, obs, opcodes, program, bigcode, code,
                   tape, data_pointer, stdin, limit, m, r>>

\* main is started again on the next program file, in the same environment.
Rerun ==
    /\ pc \in {"done", "panic"}
    /\ queue # <<>>
    /\ obs' = [valid |-> TRUE, source |-> source, opcodes |-> opcodes,
               program |-> program, out |-> m.out, status |-> m.status]
    /\ source' = Head(queue)
    /\ queue' = Tail(queue)
    /\ pc' = "lex"
    /\ opcodes' = <<>>
    /\ program' = Parsed(<<>>)
    /\ bigcode' = <<>>
    /\ code' = <<>>
    /\ m' = Idle
    /\ UNCHANGED <<todo, checks, tape, data_pointer, stdin, limit, r, b>>

\* The state of main before lex, with nothing computed yet.
Fresh ==
    /\ pc = "lex"
    /\ obs = NoObs
    /\ opcodes = <<>>
    /\ program = Parsed(<<>>)
    /\ bigcode = <<>>
    /\ code = <<>>
    /\ m = Idle
    /\ r = Idle
    /\ b = Idle

\* main on every short program file, in both build profiles.
Init ==
    /\ Fresh
    /\ source \in Texts(Symbols, MaxLen)
    /\ queue = <<>>
    /\ todo = <<>>
    /\ checks \in BOOLEAN
    /\ tape = ZeroTape
    /\ data_pointer = StartPointer
    /\ stdin = <<65>>
    /\ limit = MaxSteps

Next == Lex \/ Parse \/ Raise \/ Compile \/ Call

Spec == Init /\ [][Next]_vars

\* ------------------------------------------------- two program files in turn
Strip(text) == SelectSeq(text, LAMBDA c : c \in Symbols)

InsertAt(text, k, c) == SubSeq(text, 1, k) \o <<c>> \o SubSeq(text, k + 1, Len(text))

\* Texts that differ from text in comments only.
Twins(text) ==
    {Strip(text)} \cup {InsertAt(text, k, c) : k \in 0..Len(text), c \in Comments}

InitPair ==
    /\ Fresh
    /\ source \in Texts(Symbols \cup Comments, MaxPairLen)
    /\ \E twin \in Twins(source) : queue = <<twin>>
    /\ todo = <<>>
    /\ checks = TRUE
    /\ tape = ZeroTape
    /\ data_pointer = StartPointer
    /\ stdin = <<65>>
    /\ limit = MaxSteps

NextPair == Lex \/ Parse \/ Raise \/ Compile \/ Call \/ Rerun

SpecPair == InitPair /\ [][NextPair]_vars

\* --------------------------- the three executions from the same environment
\* The example programs "+++.", "+++++[-].", ",." and "++[>++<-]>.", and
\* two programs that touch a cell next to the tape and come back.
Samples ==
    { <<"+", "+", "+", ".">>,
      <<"+", "+", "+", "+", "+", "[", "-", "]", ".">>,
      <<",", ".">>,
      <<"+", "+", "[", ">", "+", "+", "<", "-", "]", ">", ".">>,
      <<">", "+", "-", "<", ".">>,
      <<"<", "-", "+", ">", ".">> }

Poke(t, cells) == [i \in 1..Len(t) |-> IF (i - 1) \in DOMAIN cells THEN cells[i - 1] ELSE t[i]]

Env(t, p, input) == [tape |-> t, data_pointer |-> p, stdin |-> input]

\* The environment of main, and environments at both ends of the tape.
Envs ==
    { Env(ZeroTape, StartPointer, <<65>>),
      Env(Poke(ZeroTape, (0 :> 1) @@ (1 :> 2)), 0, <<0>>),
      Env(Poke(ZeroTape, (1022 :> 1) @@ (1023 :> 255)), 1023, <<200>>),
      Env(Poke(ZeroTape, (0 :> 255) @@ (1 :> 1) @@ (2 :> 3)), 1, <<>>) }

InitExec ==
    /\ Fresh
    /\ source \in Texts(Symbols, MaxProg) \cup Samples
    /\ queue = <<>>
    /\ todo = <<"run", "big">>
    /\ checks \in BOOLEAN
    /\ \E e \in Envs : tape = e.tape /\ data_pointer = e.data_pointer /\ stdin = e.stdin
    /\ limit = MaxSteps

NextExec == Lex \/ Parse \/ Raise \/ Compile \/ Call \/ Run \/ ExecBig

SpecExec == InitExec /\ [][NextExec]_vars

\* ------------------------------------------------------------ the long runs
\* k bytes 1 and then a byte 0.
Feed(k) == [i \in 1..(k + 1) |-> IF i <= k THEN 1 ELSE 0]

Sixteen(c) == <<c, c, c, c, c, c, c, c, c, c, c, c, c, c, c, c>>

\* Programs that walk to an end of the tape, sixteen cells per input byte
\* or per loop iteration.
Walk(c, then) == <<",", "[">> \o Sixteen(c) \o <<",", "]">> \o then
Creep(c, d) == <<d, "[">> \o Sixteen(c) \o <<d, "]">>

Walkers ==
    { Walk("<", <<"<">>),
      Walk("<", <<"<", ".">>),
      Walk("<", <<"<", ">", ".">>),
      Walk(">", <<>>),
      Walk(">", <<">", "+">>),
      Creep("<", "+"),
      Creep(">", "-"),
      <<"]">> }

\* Loops on the cell 512 with a pending displacement d, and what follows.
Prefix(d) ==
    CASE d = -2 -> <<"<", "<">>
      [] d = -1 -> <<"<">>
      [] d = 0 -> <<>>
      [] d = 1 -> <<">">>
      [] d = 2 -> <<">", ">">>

Bodies ==
    { <<"-">>, <<>>, <<"+">>, <<"-", "-">>, <<"[", "-", "]">>, <<"-", ">", "<">> }

Suffixes == { <<>>, <<".">>, <<">", "+">> }

LoopText(d, body, suffix) == Prefix(d) \o <<"[">> \o body \o <<"]">> \o suffix

\* Every cell value under the loop [-], the values at the ends of the range
\* under every displacement and suffix, and every other body on 0 and 2.
InitLoops ==
    \E d \in -2..2, body \in Bodies, suffix \in Suffixes, v \in 0..255 :
        /\ \/ body = <<"-">> /\ d = 0 /\ suffix = <<".">>
           \/ body = <<"-">> /\ v \in {0, 1, 255}
           \/ d \in {-1, 0} /\ suffix = <<".">> /\ v \in {0, 2}
        /\ source = LoopText(d, body, suffix)
        /\ tape = Poke(ZeroTape, (StartPointer :> v))
        /\ data_pointer = StartPointer - d
        /\ stdin = <<>>

InitWalks ==
    /\ source \in Walkers
    /\ tape = ZeroTape
    /\ data_pointer = StartPointer
    /\ stdin \in {Feed((StartPointer \div 16) - 1), Feed(StartPointer \div 16)}

InitLong ==
    /\ Fresh
    /\ queue = <<>>
    /\ todo = <<"run">>
    /\ checks \in BOOLEAN
    /\ limit = MaxLongSteps
    /\ InitLoops \/ InitWalks

NextLong == Lex \/ Parse \/ Raise \/ Compile \/ Call \/ Run

SpecLong == InitLong /\ [][NextLong]_vars

\* ================================================================ properties
Lexed == pc # "lex"
ParseDone == pc \notin {"lex", "parse"}
Raised == pc \notin {"lex", "parse", "raise", "panic"}
Compiled == pc \notin {"lex", "parse", "raise", "compile", "panic"}
MainEnv == tape = ZeroTape /\ data_pointer = StartPointer

Min(S) == CHOOSE x \in S : \A y \in S : x <= y

Occurrences(ops, k, op) == Cardinality({j \in 1..k : ops[j] = op})

\* Nesting depth after the first k opcodes.
DepthAfter(ops, k) == Occurrences(ops, k, "LoopBegin") - Occurrences(ops, k, "LoopEnd")

\* The 1-based positions of the first loop-end met at depth 0 (none or one).
StrayEnds(ops) ==
    {i \in 1..Len(ops) : DepthAfter(ops, i) < 0 /\ \A j \in 1..(i - 1) : DepthAfter(ops, j) >= 0}

Balanced(ops) ==
    /\ \A k \in 1..Len(ops) : DepthAfter(ops, k) >= 0
    /\ DepthAfter(ops, Len(ops)) = 0

\* The 1-based positions of the loop-begins without a matching loop-end.
UnmatchedBegins(ops) ==
    {i \in 1..Len(ops) :
        /\ ops[i] = "LoopBegin"
        /\ ~\E j \in (i + 1)..Len(ops) :
              ops[j] = "LoopEnd" /\ Balanced(SubSeq(ops, i + 1, j - 1))}

RECURSIVE Unparse(_)
Unparse(prog) ==
    IF prog = <<>> THEN <<>>
    ELSE (IF Head(prog).op = "Loop"
          THEN <<"LoopBegin">> \o Unparse(Head(prog).body) \o <<"LoopEnd">>
          ELSE <<Head(prog).op>>) \o Unparse(Tail(prog))

\* C2: a loop-end met at nesting depth 0 makes parse panic with the index of
\* the first such loop-end in the sequence given to the top-level parse; no
\* program is returned and nothing is executed; "]" alone fails at 0.
ThmC2 ==
    (ParseDone /\ StrayEnds(opcodes) # {}) =>
        /\ ~program.ok
        /\ program.err = "LoopEnd"
        /\ program.at = Min(StrayEnds(opcodes)) - 1
        /\ program.program = <<>>
        /\ pc = "panic"
        /\ m = Idle
        /\ (opcodes = <<"LoopEnd">> => program.at = 0)

WitC2 ==
    /\ pc = "panic"
    /\ opcodes = <<"Increment", "LoopBegin", "LoopEnd", "LoopEnd">>
    /\ program.err = "LoopEnd"
    /\ program.at = 3

\* C3: a sequence that never closes below depth 0 and ends at depth > 0 makes
\* parse panic with the index of the earliest loop-begin that has no matching
\* loop-end; no program is returned.
ThmC3 ==
    (ParseDone /\ StrayEnds(opcodes) = {} /\ DepthAfter(opcodes, Len(opcodes)) > 0) =>
        /\ ~program.ok
        /\ program.err = "LoopBegin"
        /\ program.at = Min(UnmatchedBegins(opcodes)) - 1
        /\ program.program = <<>>
        /\ pc = "panic"
        /\ m = Idle

WitC3 ==
    /\ pc = "panic"
    /\ opcodes = <<"LoopBegin", "LoopEnd", "LoopBegin", "LoopBegin">>
    /\ program.err = "LoopBegin"
    /\ program.at = 2

\* C10: parse of a bracket-balanced sequence succeeds and writing the tree
\* back out gives the sequence again; no recursive call of parse on a loop
\* body ever panics.
ThmC10 ==
    ParseDone =>
        /\ ~program.nested
        /\ Balanced(opcodes) => (program.ok /\ Unparse(program.program) = opcodes)

WitC10 ==
    /\ pc = "raise"
    /\ opcodes = <<"LoopBegin", "LoopBegin", "LoopEnd", "LoopEnd">>
    /\ program.program = <<Loop(<<Loop(<<>>)>>)>>

RECURSIVE NonzeroDeltas(_)
NonzeroDeltas(big) ==
    \A k \in 1..Len(big) :
        /\ big[k].op \in {"Move", "Adj"} => big[k].n # 0
        /\ big[k].op = "Loop" => NonzeroDeltas(big[k].body)

RECURSIVE NoNeighbours(_, _)
NoNeighbours(big, op) ==
    /\ \A k \in 1..(Len(big) - 1) : ~(big[k].op = op /\ big[k + 1].op = op)
    /\ \A k \in 1..Len(big) : big[k].op = "Loop" => NoNeighbours(big[k].body, op)

\* C9 as claimed: in the output of raise_abstraction every Move and Adj has a
\* nonzero delta and no two Move nodes and no two Adj nodes are neighbours.
OrigC9 ==
    Raised => /\ NonzeroDeltas(bigcode)
              /\ NoNeighbours(bigcode, "Move")
              /\ NoNeighbours(bigcode, "Adj")

\* C9 amended: every Move and Adj has a nonzero delta and no two Move nodes
\* are neighbours (two Adj nodes can be).
ThmC9 ==
    Raised => /\ NonzeroDeltas(bigcode)
              /\ NoNeighbours(bigcode, "Move")

WitC9 ==
    /\ pc = "compile"
    /\ source = <<"+", ">", "<", "+">>
    /\ bigcode = <<Adj(1), Adj(1)>>

CharOf(op) ==
    CASE op = "IncrementPointer" -> ">"
      [] op = "DecrementPointer" -> "<"
      [] op = "Increment" -> "+"
      [] op = "Decrement" -> "-"
      [] op = "Write" -> "."
      [] op = "Read" -> ","
      [] op = "LoopBegin" -> "["
      [] op = "LoopEnd" -> "]"

Unlex(ops) == [k \in 1..Len(ops) |-> CharOf(ops[k])]

\* C7: lex returns the recognized characters in source order, never more
\* than the input has; two texts that are equal once the other characters
\* are deleted get the same opcodes, the same parse result (tree, or error
\* and position) and the same output.
ThmC7 ==
    /\ Lexed => (Unlex(opcodes) = Strip(source) /\ Len(opcodes) <= Len(source))
    /\ (obs.valid /\ Strip(obs.source) = Strip(source)) =>
          /\ Lexed => opcodes = obs.opcodes
          /\ ParseDone => program = obs.program
          /\ pc \in {"done", "panic"} => (m.out = obs.out /\ m.status = obs.status)

WitC7 ==
    /\ obs.valid
    /\ pc = "done"
    /\ obs.source = <<",", "#", ".">>
    /\ source = <<",", ".">>
    /\ m.out = <<65>>
    /\ obs.out = <<65>>

SameRun(x, y) ==
    /\ x.out = y.out
    /\ x.stdin = y.stdin
    /\ x.tape = y.tape
    /\ x.p = y.p

Budget(mach) == mach.status = "budget"

ThmC8 ==
    (pc \in {"big", "done"} /\ ~r.escaped /\ ~Budget(r) /\ ~Budget(m)) =>
        /\ m.out = r.out
        /\ m.tape = r.tape
        /\ m.stdin = r.stdin
        /\ m.status = r.status
        /\ r.status = "ok" => m.p = r.p
        /\ (MainEnv /\ source = <<"+", "+", "[", ">", "+", "+", "<", "-", "]", ">", ".">>)
              => (m.status = "ok" /\ m.out = <<4>>)

\* The body [>] leaves its move pending at its end; the loop runs twice.
WitC8 ==
    /\ pc = "done"
    /\ source = <<"[", ">", "]">>
    /\ data_pointer = 0
    /\ r.status = "ok"
    /\ r.p = 2
    /\ m.p = 2

CellsAreBytes(t) == \A i \in 1..Len(t) : t[i] \in 0..255

\* The node the chain machine calls next and the cell it addresses.
NextNode(mach) == Head(mach.stack).code[Head(mach.stack).k]
Target(mach) ==
    IF NextNode(mach).op = "Loop" /\ Head(mach.stack).entered THEN mach.p
    ELSE mach.p + NextNode(mach).delta_p
Calling == pc = "call" /\ m.status = "running" /\ m.steps < limit

\* C6 as claimed: Increment on a cell holding 255 leaves 0, Decrement on a
\* cell holding 0 leaves 255, the run goes on in both cases, and every cell
\* stays in 0..255.
StepC6 ==
    Calling =>
        LET n == NextNode(m)
            p == Target(m)
        IN /\ CellsAreBytes(m'.tape)
           /\ (n.op = "Increment" /\ InBounds(m.tape, p) /\ Cell(m.tape, p) = 255) =>
                 (m'.status = "running" /\ Cell(m'.tape, p) = 0)
           /\ (n.op = "Decrement" /\ InBounds(m.tape, p) /\ Cell(m.tape, p) = 0) =>
                 (m'.status = "running" /\ Cell(m'.tape, p) = 255)

OrigC6 == [][StepC6]_vars

RECURSIVE ShortcutExact(_, _)
\* The chain has a SetZero node exactly where the tree has a loop whose body
\* is the single instruction Decrement, at every nesting level.
ShortcutExact(prog, chain) ==
    LET eff == SelectSeq(prog, LAMBDA i : i.op \notin {"IncrementPointer", "DecrementPointer"})
    IN /\ Len(chain) = Len(eff) + 1
       /\ \A k \in 1..Len(eff) :
             /\ chain[k].op = "SetZero" <=> eff[k] = Loop(<<Insn("Decrement")>>)
             /\ (eff[k].op = "Loop" /\ chain[k].op # "SetZero") =>
                   (chain[k].op = "Loop" /\ ShortcutExact(eff[k].body, chain[k].inner))

RECURSIVE HasSetZero(_)
HasSetZero(chain) ==
    \E k \in 1..Len(chain) :
        chain[k].op = "SetZero" \/ (chain[k].op = "Loop" /\ HasSetZero(chain[k].inner))

\* C5: a loop is compiled to "set the cell to zero" exactly when its body is
\* the single instruction Decrement, and then, for every cell value and
\* pending displacement, the chain leaves the tape, cursor and output that
\* run leaves by iterating the loop.
ThmC5 ==
    /\ Compiled => ShortcutExact(program.program, code)
    /\ (pc = "done" /\ HasSetZero(code) /\ ~r.escaped /\ ~Budget(r) /\ ~Budget(m)) =>
          /\ m.status = r.status
          /\ m.tape = r.tape
          /\ m.p = r.p
          /\ m.out = r.out

WitC5 ==
    /\ pc = "done"
    /\ source = <<"<", "<", "[", "-", "]", ">", "+">>
    /\ Cell(tape, StartPointer) = 255
    /\ code = <<Node("SetZero", -2, <<>>), Node("Increment", 1, <<>>), Node("Return", 0, <<>>)>>
    /\ r.status = "ok"
    /\ r.steps > 3 * 255
    /\ Cell(m.tape, StartPointer) = 0

StepC4 ==
    (Calling /\ MainEnv) =>
        LET n == NextNode(m)
            p == Target(m)
            touches == n.op # "Return" /\ ~(n.op = "Read" /\ m.stdin = <<>>)
        IN /\ Len(m'.tape) = TapeLen
           /\ (touches /\ p \notin 0..(TapeLen - 1)) =>
                 (m'.status = "oob" /\ m'.tape = m.tape /\ m'.p = p)
           /\ (touches /\ p \in 0..(TapeLen - 1)) => (m'.status # "oob" /\ m'.p = p)
           /\ ~touches => (m'.status # "oob" /\ m'.tape = m.tape)
           /\ n.op = "Return" => m'.p = p

====
